---- MODULE Spec2Model ----
(***************************************************************************)
(* Model of stub_stdext_unix_read (stdext/unixext_read_stubs.c): an        *)
(* aligned-buffer read(2) into an OCaml string.  One action per statement  *)
(* of the C function; a sequence of calls is made on one process, so the   *)
(* process-wide state (errno, the heap, the descriptor's file position,    *)
(* the destination string) carries over from call to call.                 *)
(***************************************************************************)
EXTENDS Integers, Sequences, FiniteSets, TLC

(* ---------------------------- bounds ----------------------------------- *)
\* width in bits of the C type int (32 in the build), scaled down
IntBits == 3
\* number of bytes in the file behind the good descriptor
SrcLen == 3
\* number of calls made one after the other
MaxCalls == 2
\* largest ofs a caller passes
MaxOfs == 2

(* ------------------------ integer conversions -------------------------- *)
RECURSIVE Pow2(_)
Pow2(n) == IF n = 0 THEN 1 ELSE 2 * Pow2(n - 1)

Min(a, b) == IF a <= b THEN a ELSE b

\* long / size_t / ssize_t are wider than int (64 against 32 in the build)
LongBits == IntBits + 2
IntModulus == Pow2(IntBits)
IntMax == Pow2(IntBits - 1) - 1
SizeModulus == Pow2(LongBits)
SSizeMax == Pow2(LongBits - 1) - 1

\* the cast (int) x of a long or ssize_t x: keeps the low IntBits bits
ToInt(x) == LET m == x % IntModulus
            IN  IF m > IntMax THEN m - IntModulus ELSE m

\* the implicit conversion of an int to size_t at a call (sign extension)
ToSizeT(i) == i % SizeModulus

\* third argument of read as the kernel sees it: (size_t)(int) numbytes
ReadCount(nb) == ToSizeT(ToInt(nb))

(* ----------------------------- the world ------------------------------- *)
\* largest len a caller passes: one more than the first that wraps to 0
MaxLen == IntModulus + 1
\* size of the destination string
DestSize == MaxLen + MaxOfs
\* the bytes of the file, all different and different from Sentinel
Source == [i \in 1 .. SrcLen |-> i]
Sentinel == 0
\* content of freshly allocated, never written memory
Uninit == SrcLen + 1

GoodFd == 3
BadFd == 0 - 1
Fds == {GoodFd, BadFd}

\* errno values
ENone == 0
EINTR == 4
EBADF == 9
ENOMEM == 12
EINVAL == 22

NullBuf == [null |-> TRUE, mem |-> <<>>]
NoExn == [name |-> "", code |-> ENone]
NoResult == 0 - 1
NoCount == 0 - 1

VARIABLES
  pc,        \* statement the call is at, or "idle" / "returned" / "raised"
  fd, ofs, len,   \* arguments of the call in progress (untagged)
  numbytes,  \* long numbytes
  ret,       \* int ret
  iobuf,     \* void *iobuf: null or a block of memory
  lock,      \* TRUE while this thread holds the runtime lock
  errno,     \* this thread's errno
  live,      \* number of blocks obtained from posix_memalign and not freed
  dest,      \* the bytes of the OCaml string buf
  pos,       \* file position of GoodFd
  exn,       \* Unix_error raised by the call, NoExn if none
  result,    \* Int_val of the value returned, NoResult if none
  calls,     \* number of calls started
  \* history of the call in progress, kept for the properties
  dest0,     \* dest when the call started
  pos0,      \* pos when the call started
  errno0,    \* errno when the call started
  reads,     \* number of read(2) calls issued by this call
  count,     \* byte count read(2) was given, NoCount if not called
  delivered, \* bytes read(2) put in the staging buffer
  short,     \* read(2) delivered less than min(count, bytes remaining)
  unlocks,   \* number of times this call released the runtime lock
  allocCode, \* error code posix_memalign reported, ENone if it succeeded
  readCode,  \* error code read(2) reported, ENone if it did not fail
  stream     \* bytes copied into buf by the calls that returned, in order

vars == <<pc, fd, ofs, len, numbytes, ret, iobuf, lock, errno, live, dest,
          pos, exn, result, calls, dest0, pos0, errno0, reads, count,
          delivered, short, unlocks, allocCode, readCode, stream>>

hist == <<dest0, pos0, errno0, reads, count, delivered, short, unlocks,
          allocCode, readCode>>

Init ==
  /\ pc = "idle"
  /\ fd = GoodFd /\ ofs = 0 /\ len = 0
  /\ numbytes = 0
  /\ ret = 0
  /\ iobuf = NullBuf
  /\ lock = TRUE
  /\ errno = ENone
  /\ live = 0
  /\ dest = [i \in 1 .. DestSize |-> Sentinel]
  /\ pos = 0
  /\ exn = NoExn
  /\ result = NoResult
  /\ calls = 0
  /\ dest0 = dest /\ pos0 = 0 /\ errno0 = ENone
  /\ reads = 0 /\ count = NoCount /\ delivered = <<>> /\ short = FALSE
  /\ unlocks = 0 /\ allocCode = ENone /\ readCode = ENone
  /\ stream = <<>>

(* ------------------------------ line 24-31 ----------------------------- *)
\* The OCaml caller applies the stub; locals are initialised and
\* numbytes = Long_val(len).  The caller keeps ofs + len within buf.
Call ==
  /\ pc \in {"idle", "returned", "raised"}
  /\ calls < MaxCalls
  /\ \E f \in Fds, l \in 0 .. MaxLen :
       \E o \in 0 .. Min(MaxOfs, DestSize - l) :
         /\ fd' = f /\ len' = l /\ ofs' = o
         /\ numbytes' = l
  /\ ret' = 0
  /\ iobuf' = NullBuf
  /\ exn' = NoExn
  /\ result' = NoResult
  /\ calls' = calls + 1
  /\ dest0' = dest /\ pos0' = pos /\ errno0' = errno
  /\ reads' = 0 /\ count' = NoCount /\ delivered' = <<>> /\ short' = FALSE
  /\ unlocks' = 0 /\ allocCode' = ENone /\ readCode' = ENone
  /\ pc' = "L32"
  /\ UNCHANGED <<lock, errno, live, dest, pos, stream>>

(* -------------------------------- line 32 ------------------------------ *)
\* posix_memalign succeeds.  For size 0 it hands back either a null
\* pointer or a block that free() must be given.
AllocOk ==
  /\ pc = "L32"
  /\ \/ /\ iobuf' = [null |-> FALSE, mem |-> [i \in 1 .. numbytes |-> Uninit]]
        /\ live' = live + 1
     \/ /\ numbytes = 0
        /\ iobuf' = NullBuf
        /\ live' = live
  /\ ret' = 0
  /\ pc' = "L33"
  /\ UNCHANGED <<fd, ofs, len, numbytes, lock, errno, dest, pos, exn, result,
                 calls, hist, stream>>

\* posix_memalign fails: the code comes back as the return value; errno is
\* left as it was or set by the allocator underneath.
AllocFail ==
  /\ pc = "L32"
  /\ ret' = ENOMEM
  /\ allocCode' = ENOMEM
  /\ errno' \in {errno, ENOMEM}
  /\ pc' = "L33"
  /\ UNCHANGED <<fd, ofs, len, numbytes, iobuf, lock, live, dest, pos, exn,
                 result, calls, dest0, pos0, errno0, reads, count, delivered,
                 short, unlocks, readCode, stream>>

(* ------------------------------ line 33-34 ----------------------------- *)
\* uerror raises Unix_error(errno, name, ""); control leaves the stub.
Uerror(name) ==
  /\ exn' = [name |-> name, code |-> errno]
  /\ pc' = "raised"

\* variant: the result of posix_memalign is not looked at
UerrorAllocIgnored ==
  /\ pc = "L33"
  /\ ret # 0
  /\ lock' = FALSE
  /\ unlocks' = unlocks + 1
  /\ pc' = "L36"
  /\ UNCHANGED <<fd, ofs, len, numbytes, ret, iobuf, errno, live, dest, pos,
                 exn, result, calls, dest0, pos0, errno0, reads, count,
                 delivered, short, allocCode, readCode, stream>>

UerrorAlloc ==
  /\ pc = "L33"
  /\ ret # 0
  /\ Uerror("read/posix_memalign")
  /\ UNCHANGED <<fd, ofs, len, numbytes, ret, iobuf, lock, errno, live, dest,
                 pos, result, calls, hist, stream>>

(* -------------------------------- line 35 ------------------------------ *)
EnterBlocking ==
  /\ pc = "L33"
  /\ ret = 0
  /\ lock' = FALSE
  /\ unlocks' = unlocks + 1
  /\ pc' = "L36"
  /\ UNCHANGED <<fd, ofs, len, numbytes, ret, iobuf, errno, live, dest, pos,
                 exn, result, calls, dest0, pos0, errno0, reads, count,
                 delivered, short, allocCode, readCode, stream>>

(* -------------------------------- line 36 ------------------------------ *)
\* the staging block after the kernel stored data at its start
WriteStaging(mem, data) ==
  [i \in 1 .. Len(mem) |-> IF i <= Len(data) THEN data[i] ELSE mem[i]]

\* read(2) reports an error: bad descriptor, a count above SSIZE_MAX
\* (Linux: EINVAL), or an interrupting signal.
ReadFail ==
  /\ pc = "L36"
  /\ LET c == ReadCount(numbytes)
     IN  /\ count' = c
         /\ \/ fd = BadFd /\ errno' = EBADF
            \/ fd = GoodFd /\ c > SSizeMax /\ errno' = EINVAL
            \/ fd = GoodFd /\ c <= SSizeMax /\ errno' = EINTR
  /\ readCode' = errno'
  /\ ret' = ToInt(0 - 1)
  /\ reads' = reads + 1
  /\ pc' = "L37"
  /\ UNCHANGED <<fd, ofs, len, numbytes, iobuf, lock, live, dest, pos, exn,
                 result, calls, dest0, pos0, errno0, delivered, short,
                 unlocks, allocCode, stream>>

\* read(2) delivers n bytes, at least one unless nothing was asked for or
\* nothing is left, and advances the file position.
ReadOk ==
  /\ pc = "L36"
  /\ fd = GoodFd
  /\ LET c == ReadCount(numbytes)
         m == Min(c, SrcLen - pos)
     IN  /\ c <= SSizeMax
         /\ count' = c
         /\ \E n \in (IF m = 0 THEN {0} ELSE 1 .. m) :
              /\ delivered' = SubSeq(Source, pos + 1, pos + n)
              /\ iobuf' = [iobuf EXCEPT !.mem = WriteStaging(@, delivered')]
              /\ pos' = pos + n
              /\ ret' = ToInt(n)
              /\ short' = (n < m)
  /\ reads' = reads + 1
  /\ pc' = "L37"
  /\ UNCHANGED <<fd, ofs, len, numbytes, lock, errno, live, dest, exn, result,
                 calls, dest0, pos0, errno0, unlocks, allocCode, readCode,
                 stream>>

(* -------------------------------- line 37 ------------------------------ *)
\* variant: the lock is taken back only when read succeeded
LeaveBlockingOnSuccess ==
  /\ pc = "L37"
  /\ lock' = (ret # 0 - 1)
  /\ pc' = "L38"
  /\ UNCHANGED <<fd, ofs, len, numbytes, ret, iobuf, errno, live, dest, pos,
                 exn, result, calls, hist, stream>>

LeaveBlocking ==
  /\ pc = "L37"
  /\ lock' = TRUE
  /\ pc' = "L38"
  /\ UNCHANGED <<fd, ofs, len, numbytes, ret, iobuf, errno, live, dest, pos,
                 exn, result, calls, hist, stream>>

(* -------------------------------- line 38 ------------------------------ *)
\* variant: the error sentinel is handed back as the byte count
UerrorReadSentinel ==
  /\ pc = "L38"
  /\ ret = 0 - 1
  /\ result' = ret
  /\ pc' = "returned"
  /\ UNCHANGED <<fd, ofs, len, numbytes, ret, iobuf, lock, errno, live, dest,
                 pos, exn, calls, hist, stream>>

\* variant: an interrupted read is issued again
UerrorReadRetry ==
  /\ pc = "L38"
  /\ ret = 0 - 1
  /\ IF errno = EINTR
       THEN ret' = 0 /\ pc' = "L33" /\ exn' = exn
       ELSE ret' = ret /\ Uerror("read")
  /\ UNCHANGED <<fd, ofs, len, numbytes, iobuf, lock, errno, live, dest,
                 pos, result, calls, hist, stream>>

UerrorRead ==
  /\ pc = "L38"
  /\ ret = 0 - 1
  /\ Uerror("read")
  /\ UNCHANGED <<fd, ofs, len, numbytes, ret, iobuf, lock, errno, live, dest,
                 pos, result, calls, hist, stream>>

(* -------------------------------- line 39 ------------------------------ *)
\* memmove(&Byte(buf, o), src, n)
\* variant: the copy lands at the start of buf, ofs is dropped
MemmoveNoOffset(d, o, src, n) ==
  [i \in 1 .. Len(d) |-> IF i <= n THEN src[i] ELSE d[i]]

MemmoveInto(d, o, src, n) ==
  [i \in 1 .. Len(d) |-> IF i > o /\ i <= o + n THEN src[i - o] ELSE d[i]]

Memmove ==
  /\ pc = "L38"
  /\ ret # 0 - 1
  /\ dest' = MemmoveInto(dest, ofs, iobuf.mem, ToSizeT(ret))
  /\ pc' = "L40"
  /\ UNCHANGED <<fd, ofs, len, numbytes, ret, iobuf, lock, errno, live, pos,
                 exn, result, calls, hist, stream>>

(* -------------------------------- line 40 ------------------------------ *)
Free ==
  /\ pc = "L40"
  /\ live' = IF iobuf.null THEN live ELSE live - 1
  /\ iobuf' = NullBuf
  /\ pc' = "L42"
  /\ UNCHANGED <<fd, ofs, len, numbytes, ret, lock, errno, dest, pos, exn,
                 result, calls, hist, stream>>

(* ------------------------------ line 41-42 ----------------------------- *)
\* variant: the requested count is returned, not the count read
ReturnRequested ==
  /\ pc = "L42"
  /\ result' = numbytes
  /\ stream' = stream \o SubSeq(dest, ofs + 1, ofs + ret)
  /\ pc' = "returned"
  /\ UNCHANGED <<fd, ofs, len, numbytes, ret, iobuf, lock, errno, live, dest,
                 pos, exn, calls, hist>>

Return ==
  /\ pc = "L42"
  /\ result' = ret
  /\ stream' = stream \o SubSeq(dest, ofs + 1, ofs + ret)
  /\ pc' = "returned"
  /\ UNCHANGED <<fd, ofs, len, numbytes, ret, iobuf, lock, errno, live, dest,
                 pos, exn, calls, hist>>

Next ==
  \/ Call
  \/ AllocOk
  \/ AllocFail
  \/ UerrorAlloc
  \/ EnterBlocking
  \/ ReadFail
  \/ ReadOk
  \/ LeaveBlocking
  \/ UerrorRead
  \/ Memmove
  \/ Free
  \/ Return

Spec == Init /\ [][Next]_vars

TypeOK ==
  /\ pc \in {"idle", "L32", "L33", "L36", "L37", "L38", "L40", "L42",
             "returned", "raised"}
  /\ lock \in BOOLEAN
  /\ live \in 0 .. MaxCalls
  /\ pos \in 0 .. SrcLen
  /\ Len(dest) = DestSize

(* ======================================================================= *)
(* Properties                                                              *)
(* ======================================================================= *)
Done == pc \in {"returned", "raised"}
\* the copy of line 39 has been made
Copied == pc \in {"L40", "L42", "returned"}

\* C1: after the copy of a call that read n bytes, buf[ofs .. ofs+n) holds
\* the n bytes read(2) delivered, in order, and every other byte of buf,
\* the rest of [ofs, ofs+len) included, is as it was when the call began.
C1_CopyAndFrame ==
  Copied =>
    /\ Len(delivered) = ret
    /\ \A i \in 1 .. DestSize :
         dest[i] = IF i > ofs /\ i <= ofs + ret
                     THEN delivered[i - ofs]
                     ELSE dest0[i]

\* a partial read at a non-zero offset into a buf that already holds data
C1_Witness ==
  /\ pc = "returned"
  /\ ofs > 0
  /\ result > 0 /\ result < len
  /\ ofs + len < DestSize
  /\ dest # dest0
  /\ \E i \in 1 .. DestSize : dest0[i] # Sentinel

\* C2: whenever control is with the caller (before a call, after a return,
\* after a raise) no staging block is live.
C2_NoLiveStaging ==
  pc \in {"idle", "returned", "raised"} => live = 0

\* C3: a call that returns gives back the count n of its one read, with
\* 0 <= n <= len; a read that delivered 0 bytes ends in a return of 0, never
\* in a raise, and buf is as it was.
C3_ReturnsReadCount ==
  /\ pc = "returned" =>
       /\ reads = 1
       /\ result = Len(delivered)
       /\ 0 <= result /\ result <= len
       /\ (result = 0 => dest = dest0)
  /\ (reads = 1 /\ readCode = ENone /\ Len(delivered) = 0) =>
       /\ pc # "raised" /\ exn = NoExn
       /\ dest = dest0

\* end of stream: a non-empty request after the file was read to its end
C3_Witness ==
  /\ pc = "returned"
  /\ len > 0 /\ len <= IntMax
  /\ pos0 = SrcLen
  /\ result = 0
  /\ \E i \in 1 .. DestSize : dest0[i] # Sentinel

\* C4: once read(2) has reported an error the call can only raise
\* Unix_error with function name "read": no value is returned, no copy is
\* made and buf stays as it was.
C4_ReadErrorRaises ==
  readCode # ENone =>
    /\ pc \in {"L37", "L38", "raised"}
    /\ result = NoResult
    /\ dest = dest0
    /\ (pc = "raised" => exn.name = "read")

\* a bad descriptor, with data from an earlier call in buf
C4_Witness ==
  /\ pc = "raised"
  /\ fd = BadFd
  /\ len > 0
  /\ readCode = EBADF
  /\ exn.name = "read"
  /\ \E i \in 1 .. DestSize : dest0[i] # Sentinel

\* C5: once posix_memalign has failed the call can only raise
\* Unix_error with function name "read/posix_memalign": read(2) is not
\* called and the file position stays, the runtime lock is not released,
\* there is no staging block, and buf stays as it was.
C5_AllocFailureRaises ==
  allocCode # ENone =>
    /\ pc \in {"L33", "raised"}
    /\ reads = 0 /\ count = NoCount /\ pos = pos0
    /\ lock /\ unlocks = 0
    /\ iobuf = NullBuf
    /\ dest = dest0
    /\ result = NoResult
    /\ (pc = "raised" => exn.name = "read/posix_memalign")

C5_Witness ==
  /\ pc = "raised"
  /\ allocCode = ENOMEM
  /\ exn.name = "read/posix_memalign"
  /\ len > 0
  /\ pos0 > 0

\* C6: the Unix_error a call raises carries the error code of the library
\* call that failed: the code read(2) set, or the code posix_memalign
\* reported.
C6_ErrorCodeOfFailingCall ==
  pc = "raised" =>
    exn.code = IF exn.name = "read" THEN readCode ELSE allocCode

\* C7: the bytes copied by the calls that returned, in call order, are a
\* prefix of the file; and a call whose read was not cut short by the
\* source returns min(len, bytes remaining).
C7_StreamPrefix ==
  /\ Len(stream) <= SrcLen
  /\ stream = SubSeq(Source, 1, Len(stream))
  /\ (pc = "returned" /\ ~short) => result = Min(len, SrcLen - pos0)

\* C8: the runtime lock is released exactly from enter_blocking_section to
\* leave_blocking_section around read(2), once per call at most; every
\* other statement, the return and the raise run with the lock held, and
\* buf, the heap and the outcome change only under the lock.
C8_LockOnlyAroundRead ==
  /\ [](/\ lock <=> pc \notin {"L36", "L37"}
        /\ unlocks <= 1)
  /\ [][(dest' # dest \/ live' # live \/ exn' # exn \/ result' # result)
          => (lock /\ lock')]_vars

\* a failed read, after which the lock is held again
C8_Witness ==
  /\ pc = "raised"
  /\ readCode # ENone
  /\ unlocks = 1
  /\ lock

\* C9: a call issues at most one read(2): exactly one when the allocation
\* succeeded, none when it failed; after a failed read nothing but the
\* raise follows, and a short read is returned as it is.
C9_SingleRead ==
  /\ reads <= 1
  /\ Done => reads = IF allocCode = ENone THEN 1 ELSE 0
  /\ (readCode # ENone) => (reads = 1 /\ pc \in {"L37", "L38", "raised"})
  /\ (pc = "returned" /\ short) => result = Len(delivered)

\* an interrupted read that ended the call
C9_Witness ==
  /\ pc = "raised"
  /\ readCode = EINTR
  /\ reads = 1
  /\ len > 0

\* C10: read(2) is given exactly len as its byte count, which is the size
\* of the staging block, for every len, so the data fits the block and the
\* count returned is at most len.
C10_CountIsLength ==
  /\ count # NoCount => count = len
  /\ (pc \in {"L36", "L37", "L38", "L40"} /\ ~iobuf.null) =>
       /\ Len(iobuf.mem) = len
       /\ Len(delivered) <= Len(iobuf.mem)
  /\ pc = "returned" => result <= len
====
